---------------------------- MODULE Spec2Model ----------------------------
(***************************************************************************)
(* Notification timer manager of the water reminder app (TimerScreen).    *)
(*                                                                         *)
(* The screen keeps an ordered collection of timers in React state,       *)
(* mirrors it to the key-value store under "notification_timers" and to   *)
(* the platform notification scheduler.  Every handler is an async        *)
(* function: it runs up to its first await when the user taps, and each   *)
(* awaited platform call is one later step, so handlers interleave at     *)
(* their awaits.  A handler works on the values its closure captured when *)
(* it was invoked.                                                         *)
(***************************************************************************)
EXTENDS Integers, Sequences, FiniteSets, TLC

\* ------------------------------------------------------------- bounds --
MaxOps    == 3      \* handler calls (taps) in a run, restarts included
MaxNid    == 3      \* schedule references the platform issues in a run
MaxClock  == 2      \* distinct values Date.now() returns in a run

\* ---------------------------------------------------------- constants --
NoRef == 0          \* notificationId undefined / null (both falsy)

\* the key-value store's slot for "notification_timers"; getItem resolves
\* to null while nothing was ever set
Absent == [present |-> FALSE, val |-> << >>]
Stored(v) == [present |-> TRUE, val |-> v]

Refs == 1..MaxNid

\* what the user has typed into the name, hour and minute fields of a dialog
\* (hour and minute: maxLength 2) when the Add or Save button is tapped
Form(nm, hs, ms) == [name |-> nm, hour |-> hs, minute |-> ms]

BadForms ==
  { Form("", <<"2", "4">>, <<"0", "0">>),
    Form("Tea", <<"8">>, <<"6", "0">>),
    Form("", <<"-", "1">>, <<"0", "0">>),
    Form("", <<"x">>, <<"0", "0">>),
    Form("", <<"8">>, << >>) }

\* text that starts with digits and goes on with something else (pasted, or
\* typed on a keyboard that has more than digits)
OddForms == { Form("", <<"8", "x">>, <<"0", "0">>) }

NoForm == Form("", << >>, << >>)

\* the add dialog opens with hour "8", minute "00" and an empty name
AddForms == { Form("", <<"8">>, <<"0", "0">>) } \cup OddForms \cup BadForms

EditForms == { Form("Tea", <<"2", "3">>, <<"5", "9">>) } \cup BadForms

NoTimer == [id |-> 0, name |-> "", hour |-> 0, minute |-> 0,
            isActive |-> FALSE, nid |-> NoRef]

DefaultNames == << "Notification 1", "Notification 2", "Notification 3",
                   "Notification 4", "Notification 5", "Notification 6",
                   "Notification 7", "Notification 8" >>

\* ------------------------------------------------------------ parseInt --
IsDigit(c) == c \in {"0", "1", "2", "3", "4", "5", "6", "7", "8", "9"}

DigitVal(c) ==
  CASE c = "0" -> 0 [] c = "1" -> 1 [] c = "2" -> 2 [] c = "3" -> 3
    [] c = "4" -> 4 [] c = "5" -> 5 [] c = "6" -> 6 [] c = "7" -> 7
    [] c = "8" -> 8 [] c = "9" -> 9

RECURSIVE DigitPrefix(_, _, _)
\* value of the longest run of digits of s starting at position i
DigitPrefix(s, i, acc) ==
  IF i > Len(s) \/ ~IsDigit(s[i]) THEN acc
  ELSE DigitPrefix(s, i + 1, acc * 10 + DigitVal(s[i]))

\* parseInt(s): optional sign, then the leading digits; NaN without a digit
ParseInt(s) ==
  LET neg   == Len(s) > 0 /\ s[1] = "-"
      start == IF Len(s) > 0 /\ s[1] \in {"-", "+"} THEN 2 ELSE 1
  IN  IF start > Len(s) \/ ~IsDigit(s[start])
        THEN [nan |-> TRUE, val |-> 0]
        ELSE [nan |-> FALSE,
              val |-> IF neg THEN 0 - DigitPrefix(s, start, 0)
                             ELSE DigitPrefix(s, start, 0)]

\* the upper bound of the hour off by one
ValidTimeLoose(h, m) ==
  ~( h.nan \/ m.nan \/ h.val < 0 \/ h.val > 24 \/ m.val < 0 \/ m.val > 59 )

\* the validation shared by addTimer and editTimer
ValidTime(h, m) ==
  ~( h.nan \/ m.nan \/ h.val < 0 \/ h.val > 23 \/ m.val < 0 \/ m.val > 59 )

\* ------------------------------------------------------ array helpers --
RECURSIVE FilterOut(_, _)
\* prevTimers.filter(timer => timer.id !== id)
FilterOut(s, id) ==
  IF s = << >> THEN << >>
  ELSE IF Head(s).id = id THEN FilterOut(Tail(s), id)
       ELSE << Head(s) >> \o FilterOut(Tail(s), id)

\* timers.find(t => t.id === id): first match, NoTimer for undefined
Find(s, id) ==
  IF \E i \in 1..Len(s) : s[i].id = id
    THEN s[CHOOSE i \in 1..Len(s) :
                s[i].id = id /\ \A j \in 1..(i - 1) : s[j].id # id]
    ELSE NoTimer

RemoveAt(s, k) == [i \in 1..(Len(s) - 1) |-> IF i < k THEN s[i] ELSE s[i + 1]]

\* ---------------------------------------------------------------- state --
VARIABLES
  timers,        \* useState<NotificationTimer[]>
  storage,       \* what the store holds under "notification_timers"
  mountWrite,    \* the save effect's setItem at mount has not landed yet
  pending,       \* references the platform holds as scheduled
  nextNid,       \* next reference the platform will issue
  now,           \* the last value Date.now() returned
  tasks,         \* async handlers suspended at an await
  modal,         \* which dialog is on screen: none, add, edit, confirm
  editingTimer,  \* useState<NotificationTimer | null>
  delTimer,      \* the timer the delete prompt's closure found
  lastOp,        \* the handler step that has just run
  ops,           \* handlers started so far
  tog,           \* the first two toggleTimer calls of the session
  sound          \* no restart and no failed schedule call so far (history)

vars == << timers, storage, mountWrite, pending, nextNid, now, tasks, modal,
           editingTimer, delTimer, lastOp, ops, tog, sound >>


\* ------------------------------------------------------------- records --
\* a suspended async handler: the values its closure holds and where it is
Task(kind, pc, id, tm, snap) ==
  [kind |-> kind, pc |-> pc, id |-> id, tm |-> tm, snap |-> snap,
   i |-> 0, calls |-> << >>, pend |-> {}, baseOk |-> FALSE,
   base |-> << >>, call |-> 0]

Call(op, ref) == [op |-> op, ref |-> ref]

\* a handler step that has just run, with the alert it raised (history,
\* for stating properties)
Op(kind, id, tm, snap, prev, calls, ref, pend) ==
  [kind |-> kind, id |-> id, tm |-> tm, snap |-> snap, prev |-> prev,
   calls |-> calls, ref |-> ref, pend |-> pend, baseOk |-> FALSE,
   base |-> << >>, alert |-> "none", saved |-> FALSE, call |-> 0,
   form |-> NoForm]

NoOp == Op("none", 0, NoTimer, << >>, << >>, << >>, NoRef, {})

RECURSIVE SetToSeq(_)
\* the pending notifications in the order the platform enumerates them
SetToSeq(S) ==
  IF S = {} THEN << >>
  ELSE LET m == CHOOSE x \in S : \A y \in S : x <= y
       IN  << m >> \o SetToSeq(S \ {m})

\* ------------------------------------------------------------ platform --
\* scheduleNotificationAsync: a fresh reference, or NoRef when it throws
\* and scheduleNotification's catch returns null
SchedOutcomes == {NoRef} \cup (IF nextNid <= MaxNid THEN {nextNid} ELSE {})

AfterSchedule(p, ref) == IF ref = NoRef THEN p ELSE p \cup {ref}

\* cancelScheduledNotificationAsync(ref)
AfterCancel(p, ref) == p \ {ref}

\* JSON.stringify / JSON.parse of the collection: every field of an entry
\* survives; an undefined notificationId is dropped and reads back falsy
Stringify(ts) ==
  [i \in 1..Len(ts) |->
     << ts[i].id, ts[i].name, ts[i].hour, ts[i].minute, ts[i].isActive,
        ts[i].nid >>]

Parse(v) ==
  [i \in 1..Len(v) |->
     [id |-> v[i][1], name |-> v[i][2], hour |-> v[i][3],
      minute |-> v[i][4], isActive |-> v[i][5], nid |-> v[i][6]]]

\* the save effect, run after a setTimers: setItem of the collection. The
\* store takes the value (any setItem still on its way was issued earlier
\* and is overwritten), or the call is rejected and only logged
SaveEffect(ts, saved) ==
  IF saved
    THEN /\ storage' = Stored(Stringify(ts))
         /\ mountWrite' = FALSE
    ELSE UNCHANGED << storage, mountWrite >>

\* history of the first two toggleTimer calls of a session, when they are
\* made on the same id: the flag the first call found, how many of the two
\* were made and have returned, and whether nothing else wrote the
\* collection meanwhile
NoTog == [id |-> 0, orig |-> FALSE, n |-> 0, done |-> 0, clean |-> TRUE]

\* the number (1 or 2) of a toggleTimer(id) call in that history, 0 outside
CallNo(tg, id) ==
  IF tg.n = 0 THEN 1
  ELSE IF tg.n = 1 /\ tg.id = id THEN 2 ELSE 0

Other(tg) ==
  IF tg.n >= 1 /\ tg.done < 2 THEN [tg EXCEPT !.clean = FALSE] ELSE tg

Called(tg, id, flag) ==
  CASE CallNo(tg, id) = 1 -> [NoTog EXCEPT !.id = id, !.orig = flag, !.n = 1]
    [] CallNo(tg, id) = 2 -> [tg EXCEPT !.n = 2]
    [] OTHER -> Other(tg)

Returned(tg, c) == IF c = 0 THEN tg ELSE [tg EXCEPT !.done = @ + 1]

\* a handler's setTimers(ts), and the save effect the re-render runs
Commit(ts, op, tg) ==
  /\ timers' = ts
  /\ tog' = tg
  /\ \E saved \in BOOLEAN :
       /\ SaveEffect(ts, saved)
       /\ lastOp' = [op EXCEPT !.saved = saved]

\* the user can still start a handler in this run
CanStart == ops < MaxOps

\* the list under the dialogs can be tapped
ListFree == modal = "none"

\* ---------------------------------------------------------------- Init --
\* first launch: nothing stored, nothing scheduled; the mount effects have
\* issued the load's getItem and the save effect's setItem of []
MountTasks(baseOk, base) ==
  << [Task("load", "read", 0, NoTimer, << >>)
        EXCEPT !.baseOk = baseOk, !.base = base] >>

Init ==
  /\ timers = << >>
  /\ storage = Absent
  /\ mountWrite = TRUE
  /\ pending = {}
  /\ nextNid = 1
  /\ now = 1
  /\ tasks = MountTasks(FALSE, << >>)
  /\ modal = "none"
  /\ editingTimer = NoTimer
  /\ delTimer = NoTimer
  /\ lastOp = NoOp
  /\ ops = 0
  /\ tog = NoTog
  /\ sound = TRUE


\* -------------------------------------------------------- key-value store --
\* the store applies the setItem("[]") the save effect issued at mount
MountWriteLands ==
  /\ mountWrite
  /\ storage' = Stored(Stringify(<< >>))
  /\ mountWrite' = FALSE
  /\ lastOp' = NoOp
  /\ UNCHANGED << timers, pending, nextNid, now, tasks, modal, editingTimer,
                  delTimer, ops, tog >>

\* the app is killed and started again: React state and suspended handlers
\* are gone, the store and the platform scheduler keep what they hold, and
\* the mount effects run (load, then the save effect with timers = [])
Restart ==
  /\ CanStart
  /\ ops' = ops + 1
  /\ timers' = << >>
  /\ mountWrite' = TRUE
  /\ tasks' = MountTasks(~mountWrite /\ storage = Stored(Stringify(timers)),
                         timers)
  /\ modal' = "none"
  /\ editingTimer' = NoTimer
  /\ delTimer' = NoTimer
  /\ lastOp' = NoOp
  /\ tog' = NoTog
  /\ UNCHANGED << storage, pending, nextNid, now >>

\* ------------------------------------------------------------ loadTimers --
ReplaceTask(k, t) == [tasks EXCEPT ![k] = t]
DropTask(k) == RemoveAt(tasks, k)

\* index of the next entry at or after i that the loop re-schedules
RECURSIVE NextActive(_, _)
NextActive(ts, i) ==
  IF i > Len(ts) THEN i
  ELSE IF ts[i].isActive THEN i ELSE NextActive(ts, i + 1)

\* the wipe loop skipped: nothing is cancelled
WipeNone(p) == p

\* cancel everything getAllScheduledNotificationsAsync enumerates
WipeAll(p) == {}

RECURSIVE CancelCalls(_)
CancelCalls(refs) ==
  IF refs = << >> THEN << >>
  ELSE << Call("cancel", Head(refs)) >> \o CancelCalls(Tail(refs))

\* since the restart the store was written by no handler: it holds the
\* collection it held then, or the [] of the mount-time setItem (history)
MountOnly(base) ==
  storage \in { Stored(Stringify(base)), Stored(Stringify(<< >>)) }

\* getItem resolves: with nothing stored the load is over
LoadRead(k) ==
  /\ tasks[k].kind = "load" /\ tasks[k].pc = "read"
  /\ IF storage = Absent
       THEN /\ tasks' = DropTask(k)
            /\ lastOp' = [Op("loadNone", 0, NoTimer, << >>, timers, << >>,
                             NoRef, pending)
                            EXCEPT !.baseOk = tasks[k].baseOk,
                                   !.base = tasks[k].base]
       ELSE /\ tasks' = ReplaceTask(k,
                 [tasks[k] EXCEPT
                    !.pc = "wipe",
                    !.snap = Parse(storage.val),
                    !.baseOk = @ /\ MountOnly(tasks[k].base)])
            /\ lastOp' = NoOp
  /\ UNCHANGED << timers, storage, mountWrite, pending, nextNid, now, modal,
                  editingTimer, delTimer, ops, tog >>

\* scheduleNotification(timer) starts by cancelling timer.notificationId
SchedPc(tm) == IF tm.nid # NoRef THEN "cancel" ELSE "schedule"

\* where the load goes once entry i - 1 is done
LoadPc(ts, i) == IF i > Len(ts) THEN "finish" ELSE SchedPc(ts[i])

LoadTm(ts, i) == IF i > Len(ts) THEN NoTimer ELSE ts[i]

\* the wipe: every notification the platform enumerates is cancelled
LoadWipe(k) ==
  /\ tasks[k].kind = "load" /\ tasks[k].pc = "wipe"
  /\ LET t     == tasks[k]
         calls == CancelCalls(SetToSeq(pending))
         i     == NextActive(t.snap, 1)
     IN  /\ pending' = WipeAll(pending)
         /\ tasks' = ReplaceTask(k, [t EXCEPT !.calls = calls, !.i = i,
                                              !.pend = pending,
                                              !.pc = LoadPc(t.snap, i),
                                              !.tm = LoadTm(t.snap, i)])
         /\ lastOp' = Op("wipe", 0, NoTimer, t.snap, timers, calls, NoRef,
                         pending)
  /\ UNCHANGED << timers, storage, mountWrite, nextNid, now, modal,
                  editingTimer, delTimer, ops, tog >>

\* the first await of scheduleNotification, for whichever handler called
\* it: the stale reference of the timer passed in is cancelled
SchedCancel(k) ==
  /\ tasks[k].pc = "cancel"
  /\ LET t == tasks[k]
     IN  /\ pending' = AfterCancel(pending, t.tm.nid)
         /\ tasks' = ReplaceTask(k,
               [t EXCEPT !.pc = "schedule",
                         !.calls = Append(@, Call("cancel", t.tm.nid))])
  /\ lastOp' = NoOp
  /\ UNCHANGED << timers, storage, mountWrite, nextNid, now, modal,
                  editingTimer, delTimer, ops, tog >>

\* the returned reference is never stored
KeepStale(tm, ref) == tm

\* if (newNotificationId) timer.notificationId = newNotificationId
KeepOrSet(tm, ref) == IF ref # NoRef THEN [tm EXCEPT !.nid = ref] ELSE tm

\* what loadTimers hands to setTimers and to setItem once the loop is over
LoadResult(parsed) == parsed

\* setTimers(parsedTimers); the setItem the load awaits and the save
\* effect's setItem carry the same collection
LoadFinish(k, t, parsed, calls) ==
  /\ Commit(LoadResult(parsed),
            [Op("load", 0, NoTimer, parsed, timers, calls, NoRef, t.pend)
               EXCEPT !.baseOk = t.baseOk, !.base = t.base],
            Other(tog))
  /\ tasks' = DropTask(k)

\* one pass of the re-schedule loop: the schedule call for entry i returns
LoadReschedule(k) ==
  /\ tasks[k].kind = "load" /\ tasks[k].pc = "schedule"
  /\ \E ref \in SchedOutcomes :
       LET t      == tasks[k]
           parsed == [t.snap EXCEPT ![t.i] = KeepOrSet(@, ref)]
           calls  == Append(t.calls, Call("schedule", ref))
           j      == NextActive(parsed, t.i + 1)
       IN  /\ pending' = AfterSchedule(pending, ref)
           /\ nextNid' = IF ref = NoRef THEN nextNid ELSE nextNid + 1
           /\ IF j > Len(parsed)
                THEN LoadFinish(k, t, parsed, calls)
                ELSE /\ tasks' = ReplaceTask(k,
                                   [t EXCEPT !.snap = parsed, !.i = j,
                                             !.calls = calls,
                                             !.pc = SchedPc(parsed[j]),
                                             !.tm = parsed[j]])
                     /\ lastOp' = NoOp
                     /\ UNCHANGED << timers, storage, mountWrite, tog >>
  /\ UNCHANGED << now, modal, editingTimer, delTimer, ops >>

\* the collection held no active entry: the loop body never awaits
LoadNoActive(k) ==
  /\ tasks[k].kind = "load" /\ tasks[k].pc = "finish"
  /\ LoadFinish(k, tasks[k], tasks[k].snap, tasks[k].calls)
  /\ UNCHANGED << pending, nextNid, now, modal, editingTimer, delTimer,
                  ops >>

\* --------------------------------------------------------------- dialogs --
\* "+ Add Notification"
OpenAdd ==
  /\ ListFree
  /\ modal' = "add"
  /\ lastOp' = NoOp
  /\ UNCHANGED << timers, storage, mountWrite, pending, nextNid, now, tasks,
                  editingTimer, delTimer, ops, tog >>

\* openEditModal(timer)
OpenEdit(i) ==
  /\ ListFree
  /\ modal' = "edit"
  /\ editingTimer' = timers[i]
  /\ lastOp' = NoOp
  /\ UNCHANGED << timers, storage, mountWrite, pending, nextNid, now, tasks,
                  delTimer, ops, tog >>

\* the Cancel button of the add or the edit dialog
CancelModal ==
  /\ modal \in {"add", "edit"}
  /\ modal' = "none"
  /\ editingTimer' = IF modal = "edit" THEN NoTimer ELSE editingTimer
  /\ lastOp' = NoOp
  /\ UNCHANGED << timers, storage, mountWrite, pending, nextNid, now, tasks,
                  delTimer, ops, tog >>

\* -------------------------------------------------------------- addTimer --
NewTimer(id, nm, n, h, m) ==
  [id |-> id, name |-> IF nm # "" THEN nm ELSE DefaultNames[n + 1],
   hour |-> h, minute |-> m, isActive |-> TRUE, nid |-> NoRef]

\* the new entry put first: [newTimer, ...timers]
PrependResult(snap, newTimer) == << newTimer >> \o snap

\* setTimers([...timers, newTimer]) with the timers of the closure
AddResult(snap, newTimer) == Append(snap, newTimer)

\* Date.now() read by a handler: the clock has not moved since the last
\* reading, or it has moved on
Clock == { t \in {now, now + 1} : t <= MaxClock }

\* the Add button: validation, then the handler waits for the schedule call
AddTimer(f, t) ==
  /\ modal = "add"
  /\ now' = t
  /\ LET h  == ParseInt(f.hour)
         m  == ParseInt(f.minute)
         nm == f.name
     IN  IF ~ValidTime(h, m)
           THEN /\ t = now
                /\ lastOp' = [Op("addInvalid", 0, NoTimer, timers, timers,
                                 << >>, NoRef, pending)
                                EXCEPT !.alert = "Invalid Time", !.form = f]
                /\ CanStart
                /\ ops' = ops + 1
                /\ UNCHANGED tasks
           ELSE /\ CanStart
                /\ ops' = ops + 1
                /\ tasks' = Append(tasks,
                     Task("add", "schedule", t,
                          NewTimer(t, nm, Len(timers), h.val, m.val),
                          timers))
                /\ lastOp' = [Op("addStart", t, NoTimer, timers, timers,
                                 << >>, NoRef, pending)
                                EXCEPT !.form = f]
  /\ UNCHANGED << timers, storage, mountWrite, pending, nextNid, modal,
                  editingTimer, delTimer, tog >>

\* the schedule call returns; the entry is appended and the dialog closed
AddDone(k) ==
  /\ tasks[k].kind = "add" /\ tasks[k].pc = "schedule"
  /\ \E ref \in SchedOutcomes :
       LET t    == tasks[k]
           newT == KeepOrSet(t.tm, ref)
       IN  /\ pending' = AfterSchedule(pending, ref)
           /\ nextNid' = IF ref = NoRef THEN nextNid ELSE nextNid + 1
           /\ Commit(AddResult(t.snap, newT),
                     [Op("add", t.id, newT, t.snap, timers,
                         Append(t.calls, Call("schedule", ref)), ref,
                         pending)
                        EXCEPT !.alert = "Notification Added"],
                     Other(tog))
  /\ tasks' = DropTask(k)
  /\ modal' = IF modal = "add" THEN "none" ELSE modal
  /\ UNCHANGED << now, editingTimer, delTimer, ops >>

\* ------------------------------------------------------------- editTimer --
\* { ...editingTimer, name: newTimerName || editingTimer.name, hour, minute }
UpdatedTimer(et, nm, h, m) ==
  [et EXCEPT !.name = IF nm # "" THEN nm ELSE et.name,
             !.hour = h, !.minute = m]

\* prevTimers.map(timer => timer.id === editingTimer.id ? updatedTimer : timer)
EditUpdate(prevTimers, id, upd) ==
  [i \in 1..Len(prevTimers) |->
     IF prevTimers[i].id = id THEN upd ELSE prevTimers[i]]

\* the Save button
EditTimer(f) ==
  /\ modal = "edit"
  /\ editingTimer # NoTimer
  /\ LET h  == ParseInt(f.hour)
         m  == ParseInt(f.minute)
         nm == f.name
     IN  IF ~ValidTime(h, m)
           THEN /\ lastOp' = [Op("editInvalid", editingTimer.id, NoTimer,
                                 timers, timers, << >>, NoRef, pending)
                                EXCEPT !.alert = "Invalid Time", !.form = f]
                /\ CanStart
                /\ ops' = ops + 1
                /\ UNCHANGED tasks
           ELSE /\ CanStart
                /\ ops' = ops + 1
                /\ LET u == UpdatedTimer(editingTimer, nm, h.val, m.val)
                   IN  tasks' = Append(tasks,
                         Task("edit", SchedPc(u), editingTimer.id, u, timers))
                /\ lastOp' = [Op("editStart", editingTimer.id, NoTimer,
                                 timers, timers, << >>, NoRef, pending)
                                EXCEPT !.form = f]
  /\ UNCHANGED << timers, storage, mountWrite, pending, nextNid, now, modal,
                  editingTimer, delTimer, tog >>

\* the schedule call returns; the entry is replaced in place
EditDone(k) ==
  /\ tasks[k].kind = "edit" /\ tasks[k].pc = "schedule"
  /\ \E ref \in SchedOutcomes :
       LET t   == tasks[k]
           upd == KeepOrSet(t.tm, ref)
       IN  /\ pending' = AfterSchedule(pending, ref)
           /\ nextNid' = IF ref = NoRef THEN nextNid ELSE nextNid + 1
           /\ Commit(EditUpdate(timers, t.id, upd),
                     Op("edit", t.id, t.tm, t.snap, timers,
                        Append(t.calls, Call("schedule", ref)), ref,
                        pending),
                     Other(tog))
  /\ tasks' = DropTask(k)
  /\ modal' = IF modal = "edit" THEN "none" ELSE modal
  /\ editingTimer' = NoTimer
  /\ UNCHANGED << now, delTimer, ops >>

\* ----------------------------------------------------------- toggleTimer --
\* { ...timer, isActive: false, notificationId: undefined }
ToggleOffEntry(t) == [t EXCEPT !.isActive = FALSE, !.nid = NoRef]

\* the entry enabled without its notificationId being replaced
ToggleOnKeepRef(t, ref) == [t EXCEPT !.isActive = TRUE]

\* { ...timer, isActive: true, notificationId }
ToggleOnEntry(t, ref) == [t EXCEPT !.isActive = TRUE, !.nid = ref]

Ids(ts) == { ts[i].id : i \in 1..Len(ts) }

\* the functional update of the disable branch
DisableUpdate(prevTimers, id) ==
  [i \in 1..Len(prevTimers) |->
     IF prevTimers[i].id = id THEN ToggleOffEntry(prevTimers[i])
                              ELSE prevTimers[i]]

\* the functional update of the enable branch
EnableUpdate(prevTimers, id, ref) ==
  [i \in 1..Len(prevTimers) |->
     IF prevTimers[i].id = id THEN ToggleOnEntry(prevTimers[i], ref)
                              ELSE prevTimers[i]]

\* the Disable / Enable button of a row
ToggleTimer(id) ==
  /\ CanStart
  /\ ops' = ops + 1
  /\ ListFree
  /\ id \in Ids(timers)
  /\ LET tm == Find(timers, id)
         c  == CallNo(tog, id)
         tg == Called(tog, id, tm.isActive)
     IN  IF tm.isActive /\ tm.nid = NoRef
           THEN \* nothing to cancel: the handler never awaits
                /\ Commit(DisableUpdate(timers, id),
                          [Op("toggleOff", id, tm, << >>, timers, << >>,
                              NoRef, pending) EXCEPT !.call = c],
                          Returned(tg, c))
                /\ UNCHANGED tasks
           ELSE /\ tasks' = Append(tasks,
                     [(IF tm.isActive
                         THEN Task("toggleOff", "cancelOnly", id, tm, << >>)
                         ELSE Task("toggleOn", SchedPc(tm), id, tm, << >>))
                        EXCEPT !.call = c])
                /\ tog' = tg
                /\ lastOp' = NoOp
                /\ UNCHANGED << timers, storage, mountWrite >>
  /\ UNCHANGED << pending, nextNid, now, modal, editingTimer, delTimer >>

\* cancelNotification returns; the entry is marked inactive
ToggleOffDone(k) ==
  /\ tasks[k].kind = "toggleOff" /\ tasks[k].pc = "cancelOnly"
  /\ LET t == tasks[k]
     IN  /\ pending' = AfterCancel(pending, t.tm.nid)
         /\ Commit(DisableUpdate(timers, t.id),
                   [Op("toggleOff", t.id, t.tm, << >>, timers,
                       << Call("cancel", t.tm.nid) >>, NoRef, pending)
                      EXCEPT !.call = t.call],
                   Returned(tog, t.call))
  /\ tasks' = DropTask(k)
  /\ UNCHANGED << nextNid, now, modal, editingTimer, delTimer, ops >>

\* scheduleNotification returns; the entry is marked active
ToggleOnDone(k) ==
  /\ tasks[k].kind = "toggleOn" /\ tasks[k].pc = "schedule"
  /\ \E ref \in SchedOutcomes :
       LET t == tasks[k]
       IN  /\ pending' = AfterSchedule(pending, ref)
           /\ nextNid' = IF ref = NoRef THEN nextNid ELSE nextNid + 1
           /\ Commit(EnableUpdate(timers, t.id, ref),
                     [Op("toggleOn", t.id, t.tm, << >>, timers,
                         Append(t.calls, Call("schedule", ref)), ref,
                         pending)
                        EXCEPT !.call = t.call],
                     Returned(tog, t.call))
  /\ tasks' = DropTask(k)
  /\ UNCHANGED << now, modal, editingTimer, delTimer, ops >>

\* ----------------------------------------------------------- deleteTimer --
\* the Delete button of a row: the confirmation prompt opens, its onPress
\* closing over the timers of this render
DeleteTimer(id) ==
  /\ ListFree
  /\ id \in Ids(timers)
  /\ modal' = "confirm"
  /\ delTimer' = Find(timers, id)
  /\ lastOp' = NoOp
  /\ UNCHANGED << timers, storage, mountWrite, pending, nextNid, now, tasks,
                  editingTimer, ops, tog >>

\* "Cancel" on the prompt
DeleteCancel ==
  /\ modal = "confirm"
  /\ modal' = "none"
  /\ delTimer' = NoTimer
  /\ lastOp' = NoOp
  /\ UNCHANGED << timers, storage, mountWrite, pending, nextNid, now, tasks,
                  editingTimer, ops, tog >>

\* setTimers(prevTimers => prevTimers.filter(timer => timer.id !== id))
DeleteUpdate(prevTimers, id) == FilterOut(prevTimers, id)

\* "Delete" on the prompt
DeleteConfirm ==
  /\ CanStart
  /\ ops' = ops + 1
  /\ modal = "confirm"
  /\ modal' = "none"
  /\ delTimer' = NoTimer
  /\ IF delTimer.nid = NoRef
       THEN \* no reference in the closure: removed without an await
            /\ Commit(DeleteUpdate(timers, delTimer.id),
                      Op("delete", delTimer.id, delTimer, << >>, timers,
                         << >>, NoRef, pending),
                      Other(tog))
            /\ UNCHANGED tasks
       ELSE /\ tasks' = Append(tasks, Task("delete", "cancelOnly",
                                           delTimer.id, delTimer, << >>))
            /\ lastOp' = NoOp
            /\ UNCHANGED << timers, storage, mountWrite, tog >>
  /\ UNCHANGED << pending, nextNid, now, editingTimer >>

\* cancelNotification returns; the entry is removed
DeleteDone(k) ==
  /\ tasks[k].kind = "delete" /\ tasks[k].pc = "cancelOnly"
  /\ LET t == tasks[k]
     IN  /\ pending' = AfterCancel(pending, t.tm.nid)
         /\ Commit(DeleteUpdate(timers, t.id),
                   Op("delete", t.id, t.tm, << >>, timers,
                      << Call("cancel", t.tm.nid) >>, NoRef, pending),
                   Other(tog))
  /\ tasks' = DropTask(k)
  /\ UNCHANGED << nextNid, now, modal, editingTimer, delTimer, ops >>

\* ==========================================================================
\* Water tracker of the water reminder app (App, the first tab).
\*
\* The screen keeps the glasses drunk today and the daily goal in React
\* state and mirrors them to the key-value store under "glasses" and "goal",
\* with the day of the last rollover check under "lastDate" and the theme
\* under "theme".  Effects run after every render whose dependencies
\* changed.  The start-up load and the rollover check are async functions:
\* each awaited store call ends a step.
\* ==========================================================================
MaxGlasses == 3     \* glasses the user logs before a reset
MaxDay     == 2     \* local days a run spans
MaxFails   == 1     \* store calls that throw or reject in a run

Digits == << "0", "1", "2", "3", "4", "5", "6", "7", "8", "9" >>

\* toString that keeps the last digit only
toStringLastDigit(n) == << Digits[(n % 10) + 1] >>

\* n.toString() of an integer in 0..99
toString(n) ==
  IF n < 10 THEN << Digits[n + 1] >>
  ELSE << Digits[(n \div 10) + 1], Digits[(n % 10) + 1] >>

NaN == "NaN"

\* Number(str) of a stored string: the decimal value, 0 for the empty string
Number(str) ==
  IF \A i \in 1..Len(str) : IsDigit(str[i]) THEN DigitPrefix(str, 1, 0)
  ELSE NaN

\* new Date().toDateString() on local day d
getTodayDateString(d) == << "day" >> \o toString(d)

\* what the goal field (maxLength 2) holds when Save is tapped
GoalInputs ==
  { << "2" >>, << "2", "0" >>, << "0" >>, << "2", "1" >>, << "2", "5" >>,
    << >>, << "-", "1" >>, << "2", "x" >> }

Themes == { "light", "dark" }

VARIABLES
  glasses,              \* useState(0)
  goal,                 \* useState(8)
  showGoalModal,        \* useState(false)
  showCompletionModal,  \* useState(false)
  newGoal,              \* useState("8"), the goal field's text
  isLoading,            \* useState(true)
  theme,                \* useState("light")
  kv,                   \* the store's "glasses", "goal", "theme", "lastDate"
  today,                \* the local day
  boot,                 \* where the start-up effects stand
  tick,                 \* where the interval's rollover check stands
  checkDay,             \* today's date string a suspended check has computed
  fails,                \* store calls that have failed so far
  hop,                  \* the last step of the tracker (history)
  run,                  \* the addGlass calls since the counter was 0 (history)
  dis,                  \* the counter when the notice was dismissed (history)
  past                  \* the addGlass calls since the counter was 0 and
                        \* the values in memory at the last restart (history)

hvars == << glasses, goal, showGoalModal, showCompletionModal, newGoal,
            isLoading, theme, kv, today, boot, tick, checkDay, fails, hop, run,
            dis, past >>

HOp(kind) ==
  [kind |-> kind, glasses |-> glasses, goal |-> goal,
   show |-> showCompletionModal, input |-> << >>, alert |-> "",
   read |-> TRUE, wrote |-> TRUE, day |-> << >>, last |-> kv.lastDate,
   stored |-> << kv.glasses, kv.goal >>]

NoRun == [valid |-> FALSE, shows |-> 0]
NoDis == [on |-> FALSE, at |-> 0]
NoPre == [on |-> FALSE, glasses |-> 0, goal |-> 0, day |-> 0,
          dayStored |-> FALSE]
NoPast == [counting |-> FALSE, n |-> 0, pre |-> NoPre]

InitH ==
  /\ glasses = 0
  /\ goal = 8
  /\ showGoalModal = FALSE
  /\ showCompletionModal = FALSE
  /\ newGoal = << "8" >>
  /\ isLoading = TRUE
  /\ theme = "light"
  /\ kv = [glasses |-> Absent, goal |-> Absent, theme |-> Absent,
           lastDate |-> Absent]
  /\ today = 1
  /\ boot = "theme"
  /\ tick = "idle"
  /\ checkDay = << >>
  /\ fails = 0
  /\ hop = [HOp("none") EXCEPT !.glasses = 0, !.goal = 8, !.show = FALSE,
                               !.last = Absent,
                               !.stored = << Absent, Absent >>]
  /\ run = NoRun
  /\ dis = NoDis
  /\ past = NoPast

\* AsyncStorage.setItem(key, val): the store takes the value, or the call
\* rejects and the store keeps what it had
Write(s, key, val, w) == IF w THEN [s EXCEPT ![key] = Stored(val)] ELSE s

\* the store calls of a step that failed, counted
Failed(calls) == Cardinality({ i \in 1..Len(calls) : ~calls[i] })

\* the completion effect shows the notice also when the goal is passed
GoalReachedOrPassed(g, gl, loading) == g > 0 /\ g >= gl /\ ~loading

\* the condition of the completion effect
GoalReached(g, gl, loading) == g > 0 /\ g = gl /\ ~loading

\* The render after a step that leaves the state values g2, gl2, load2, th2
\* and the store kv1: every effect whose dependencies changed runs, the three
\* save effects in the order they are declared, then the completion effect.
\* calls: how the store calls of the step itself went.
\* inRun: the step is an addGlass call or leaves counter and goal alone.
Render(g2, gl2, load2, th2, kv1, calls, inRun) ==
  LET dLoad == load2 # isLoading
      dG    == g2 # glasses \/ dLoad
      dO    == gl2 # goal \/ dLoad
      dT    == th2 # theme \/ dLoad
      shown == (dG \/ dO) /\ GoalReached(g2, gl2, load2)
      show2 == showCompletionModal \/ shown
  IN  /\ glasses' = g2
      /\ goal' = gl2
      /\ isLoading' = load2
      /\ theme' = th2
      /\ showCompletionModal' = show2
      /\ \E wG \in IF dG /\ ~load2 THEN BOOLEAN ELSE { TRUE },
            wO \in IF dO /\ ~load2 THEN BOOLEAN ELSE { TRUE },
            wT \in IF dT /\ ~load2 THEN BOOLEAN ELSE { TRUE } :
           LET a == IF dG /\ ~load2
                      THEN Write(kv1, "glasses", toString(g2), wG) ELSE kv1
               b == IF dO /\ ~load2
                      THEN Write(a, "goal", toString(gl2), wO) ELSE a
               c == IF dT /\ ~load2
                      THEN Write(b, "theme", << th2 >>, wT) ELSE b
           IN  /\ fails + Failed(calls \o << wG, wO, wT >>) <= MaxFails
               /\ fails' = fails + Failed(calls \o << wG, wO, wT >>)
               /\ kv' = c
      /\ run' = IF inRun
                  THEN IF run.valid /\ show2 /\ ~showCompletionModal
                         THEN [run EXCEPT !.shows = @ + 1] ELSE run
                  ELSE IF g2 = 0 /\ ~show2 /\ ~load2
                         THEN [valid |-> TRUE, shows |-> 0] ELSE NoRun
      /\ dis' = IF dis.on /\ (load2 \/ g2 = dis.at) THEN dis ELSE NoDis

\* ------------------------------------------------------------- start-up --
\* initializeTheme: the saved theme, or the system theme when none is saved
\* or the read throws
InitializeTheme ==
  /\ boot = "theme"
  /\ \E ok \in BOOLEAN :
       LET saved == kv.theme
           found == ok /\ saved.present /\ saved.val[1] \in Themes
       IN  /\ \E initial \in IF found THEN { saved.val[1] } ELSE Themes :
                Render(glasses, goal, isLoading, initial, kv, << ok >>, TRUE)
           /\ hop' = [HOp("initializeTheme") EXCEPT !.read = ok]
  /\ boot' = "check"
  /\ UNCHANGED << showGoalModal, newGoal, today, tick, checkDay >>

\* the date comparison reads every stored day as a new day
NewDayAlways(last, td) == last.present /\ last.val # << >>

\* lastSavedDate && lastSavedDate !== today
NewDay(last, td) == last.present /\ last.val # << >> /\ last.val # td

\* checkAndResetForNewDay up to its second await: the stored day is read and
\* compared; on a new day the counter is reset and "0" written, the function
\* suspended before it writes the day; otherwise the day is written at once.
\* A store call that throws ends the function in its catch.
CheckRead(kind, ok, w) ==
  LET td == getTodayDateString(today)
  IN  IF ~ok
        THEN /\ w
             /\ Render(glasses, goal, isLoading, theme, kv, << ok >>, TRUE)
             /\ hop' = [HOp(kind) EXCEPT !.read = FALSE, !.day = td]
             /\ checkDay' = << >>
        ELSE IF NewDay(kv.lastDate, td)
          THEN /\ Render(0, goal, isLoading, theme,
                         Write(kv, "glasses", toString(0), w), << w >>, FALSE)
               /\ hop' = [HOp(kind) EXCEPT !.alert = "reset", !.wrote = w,
                                           !.day = td]
               /\ checkDay' = IF w THEN td ELSE << >>
          ELSE /\ Render(glasses, goal, isLoading, theme,
                         Write(kv, "lastDate", td, w), << w >>, TRUE)
               /\ hop' = [HOp(kind) EXCEPT !.wrote = w, !.day = td]
               /\ checkDay' = << >>

\* checkAndResetForNewDay after the reset: the day is written
CheckDate(kind, w) ==
  /\ Render(glasses, goal, isLoading, theme,
            Write(kv, "lastDate", checkDay, w), << w >>, TRUE)
  /\ hop' = [HOp(kind) EXCEPT !.wrote = w, !.day = checkDay]
  /\ checkDay' = << >>

\* loadData, 50 ms after mount: the rollover check first
LoadCheck ==
  /\ boot = "check"
  /\ \E ok, w \in BOOLEAN :
       /\ CheckRead("loadCheck", ok, w)
       /\ boot' = IF checkDay' # << >> THEN "date" ELSE "get"
  /\ UNCHANGED << showGoalModal, newGoal, today, tick >>

LoadCheckDate ==
  /\ boot = "date"
  /\ \E w \in BOOLEAN : CheckDate("loadCheckDate", w)
  /\ boot' = "get"
  /\ UNCHANGED << showGoalModal, newGoal, today, tick >>

\* loadData after the check: both values are read and set; a read that
\* throws ends the load in its catch, which shows the screen at once
LoadData ==
  /\ boot = "get"
  /\ \E ok \in BOOLEAN :
       IF ok
         THEN /\ Render(IF kv.glasses.present
                          THEN Number(kv.glasses.val) ELSE glasses,
                        IF kv.goal.present
                          THEN Number(kv.goal.val) ELSE goal,
                        TRUE, theme, kv, << >>, FALSE)
              /\ boot' = "show"
              /\ hop' = HOp("loadData")
         ELSE /\ Render(glasses, goal, FALSE, theme, kv, << ok >>, FALSE)
              /\ boot' = "done"
              /\ hop' = [HOp("loadData") EXCEPT !.read = FALSE]
  /\ UNCHANGED << showGoalModal, newGoal, today, tick, checkDay >>

\* the timeout of 100 ms that ends the load: setIsLoading(false)
LoadShow ==
  /\ boot = "show"
  /\ Render(glasses, goal, FALSE, theme, kv, << >>, FALSE)
  /\ boot' = "done"
  /\ hop' = HOp("loadShow")
  /\ UNCHANGED << showGoalModal, newGoal, today, tick, checkDay >>

\* the process is killed and started again: React state is initial again,
\* the store keeps what it holds
RestartApp ==
  /\ boot = "done"
  /\ glasses' = 0
  /\ goal' = 8
  /\ showGoalModal' = FALSE
  /\ showCompletionModal' = FALSE
  /\ newGoal' = << "8" >>
  /\ isLoading' = TRUE
  /\ theme' = "light"
  /\ boot' = "theme"
  /\ tick' = "idle"
  /\ checkDay' = << >>
  /\ hop' = HOp("restart")
  /\ run' = NoRun
  /\ UNCHANGED << kv, today, fails, dis >>

\* ------------------------------------------------------ rollover, clock --
\* the interval's callback, every 60 s once the screen is mounted
IntervalCheck ==
  /\ boot = "done"
  /\ tick = "idle"
  /\ \E ok, w \in BOOLEAN :
       /\ CheckRead("intervalCheck", ok, w)
       /\ tick' = IF checkDay' # << >> THEN "date" ELSE "idle"
  /\ UNCHANGED << showGoalModal, newGoal, today, boot >>

IntervalCheckDate ==
  /\ tick = "date"
  /\ \E w \in BOOLEAN : CheckDate("intervalCheckDate", w)
  /\ tick' = "idle"
  /\ UNCHANGED << showGoalModal, newGoal, today, boot >>

\* local midnight passes
Midnight ==
  /\ today < MaxDay
  /\ today' = today + 1
  /\ hop' = HOp("midnight")
  /\ UNCHANGED << glasses, goal, showGoalModal, showCompletionModal, newGoal,
                  isLoading, theme, kv, boot, tick, checkDay, fails, run,
                  dis >>

\* -------------------------------------------------------------- handlers --
\* the buttons of the screen take a tap: the loading view and both modals
\* cover them
Tappable == ~isLoading /\ ~showGoalModal /\ ~showCompletionModal

\* addGlass stops at the goal
addGlassClamped ==
  /\ Tappable
  /\ glasses < MaxGlasses
  /\ Render(IF glasses >= goal THEN glasses ELSE glasses + 1, goal, isLoading,
            theme, kv, << >>, TRUE)
  /\ hop' = HOp("addGlass")
  /\ UNCHANGED << showGoalModal, newGoal, today, boot, tick, checkDay >>

\* a press is handled with the closure of the render that followed the
\* press before it: setGlasses(glasses + 1)
addGlass ==
  /\ Tappable
  /\ glasses < MaxGlasses
  /\ Render(glasses + 1, goal, isLoading, theme, kv, << >>, TRUE)
  /\ hop' = HOp("addGlass")
  /\ UNCHANGED << showGoalModal, newGoal, today, boot, tick, checkDay >>

resetGlasses ==
  /\ Tappable
  /\ Render(0, goal, isLoading, theme, kv, << >>, FALSE)
  /\ hop' = HOp("resetGlasses")
  /\ UNCHANGED << showGoalModal, newGoal, today, boot, tick, checkDay >>

\* the Set Goal button
OpenGoalModal ==
  /\ Tappable
  /\ newGoal' = toString(goal)
  /\ showGoalModal' = TRUE
  /\ Render(glasses, goal, isLoading, theme, kv, << >>, TRUE)
  /\ hop' = HOp("openGoal")
  /\ UNCHANGED << today, boot, tick, checkDay >>

\* the goal's upper bound off by one
ValidGoalLoose(v) == ~v.nan /\ v.val > 0 /\ v.val <= 21

\* goalValue > 0 && goalValue <= 20 (false for NaN)
ValidGoal(v) == ~v.nan /\ v.val > 0 /\ v.val <= 20

\* Save of the goal modal, the field holding text
updateGoal(text) ==
  /\ showGoalModal
  /\ ~showCompletionModal
  /\ newGoal' = text
  /\ LET goalValue == ParseInt(text)
     IN  IF ValidGoal(goalValue)
           THEN /\ Render(glasses, goalValue.val, isLoading, theme, kv, << >>,
                          goalValue.val = goal)
                /\ showGoalModal' = FALSE
                /\ hop' = [HOp("updateGoal") EXCEPT !.input = text]
           ELSE /\ Render(glasses, goal, isLoading, theme, kv, << >>, TRUE)
                /\ showGoalModal' = showGoalModal
                /\ hop' = [HOp("updateGoal") EXCEPT !.input = text,
                                                    !.alert = "Invalid Goal"]
  /\ UNCHANGED << today, boot, tick, checkDay >>

\* Cancel of the goal modal, or the back button
CloseGoalModal ==
  /\ showGoalModal
  /\ ~showCompletionModal
  /\ showGoalModal' = FALSE
  /\ Render(glasses, goal, isLoading, theme, kv, << >>, TRUE)
  /\ hop' = HOp("closeGoal")
  /\ UNCHANGED << newGoal, today, boot, tick, checkDay >>

\* "Awesome!" of the completion notice, or the back button
DismissCompletion ==
  /\ showCompletionModal
  /\ showCompletionModal' = FALSE
  /\ dis' = [on |-> TRUE, at |-> glasses]
  /\ hop' = HOp("dismiss")
  /\ UNCHANGED << glasses, goal, showGoalModal, newGoal, isLoading, theme, kv,
                  today, boot, tick, checkDay, fails, run >>

toggleTheme ==
  /\ Tappable
  /\ Render(glasses, goal, isLoading,
            IF theme = "dark" THEN "light" ELSE "dark",
            kv, << >>, TRUE)
  /\ hop' = HOp("toggleTheme")
  /\ UNCHANGED << showGoalModal, newGoal, today, boot, tick, checkDay >>

\* Math.round(progressPercentage) without the cap
ProgressUncapped(g, gl) == (200 * g + gl) \div (2 * gl)

\* Math.round(progressPercentage), the figure under the progress bar:
\* Math.min((glasses / goal) * 100, 100), rounded half up
progressPercentage(g, gl) ==
  IF g >= gl THEN 100 ELSE (200 * g + gl) \div (2 * gl)

\* ==========================================================================
\* The clock line of the timer screen: "Current Time:" followed by
\* formatTime of the wall clock, rendered again whenever the clock state
\* is set.
\* ==========================================================================
Hours   == 0..23
Minutes == 0..59

VARIABLES
  currentTime,   \* useState(new Date()): hour and minute of the wall clock
  clockText      \* the text the screen shows for it

fvars == << currentTime, clockText >>

\* str.padStart(2, '0')
padStart(str) == IF Len(str) < 2 THEN << "0" >> \o str ELSE str

\* formatTime that takes noon for a morning hour
formatTimeNoonAM(hour, minute) ==
  LET period      == IF hour > 12 THEN << "P", "M" >> ELSE << "A", "M" >>
      displayHour == IF hour = 0 THEN 12
                     ELSE IF hour > 12 THEN hour - 12 ELSE hour
  IN  toString(displayHour) \o << ":" >> \o padStart(toString(minute))
        \o << " " >> \o period

\* formatTime(hour, minute): the 12-hour string, as a sequence of characters
formatTime(hour, minute) ==
  LET period      == IF hour >= 12 THEN << "P", "M" >> ELSE << "A", "M" >>
      displayHour == IF hour = 0 THEN 12
                     ELSE IF hour > 12 THEN hour - 12 ELSE hour
  IN  toString(displayHour) \o << ":" >> \o padStart(toString(minute))
        \o << " " >> \o period

\* the screen before its first render
FormatIdle ==
  /\ currentTime = [hour |-> 0, minute |-> 0]
  /\ clockText = << >>

\* the screen is mounted at any time of day
InitF ==
  /\ currentTime \in [hour : Hours, minute : Minutes]
  /\ clockText = formatTime(currentTime.hour, currentTime.minute)

\* the wall clock moves on to the next minute and the interval's
\* setCurrentTime renders the line again
ClockMinute ==
  /\ currentTime' =
       IF currentTime.minute < 59
         THEN [currentTime EXCEPT !.minute = @ + 1]
         ELSE [hour |-> (currentTime.hour + 1) % 24, minute |-> 0]
  /\ clockText' = formatTime(currentTime'.hour, currentTime'.minute)

\* the user sets the device clock to another time of day
ClockSet(h, m) ==
  /\ currentTime' = [hour |-> h, minute |-> m]
  /\ clockText' = formatTime(h, m)

\* ==========================================================================
\* The timer screen that triggers in the app (timers carrying
\* hasTriggered).  An interval sets the clock state every second; an effect
\* on [currentTime, timers] reads the wall clock and, in second 0 of a
\* minute, calls sendNotification for every active timer of that minute
\* that has not triggered, marks it, and at 00:00:00 clears every mark.
\* Every handler is synchronous and writes the collection by a functional
\* update.  The store is left out: hasTriggered is carried in memory.
\* ==========================================================================
MaxTimers == 2      \* timers the user adds in a run
MaxFired  == 2      \* sendNotification calls counted per timer and day

\* the instants of a day the wall clock is read at, in their order: second
\* 0 of 00:00 and of 08:00, and a later second of each
Instants ==
  << [hour |-> 0, minute |-> 0, second |-> 0],
     [hour |-> 0, minute |-> 0, second |-> 1],
     [hour |-> 8, minute |-> 0, second |-> 0],
     [hour |-> 8, minute |-> 0, second |-> 1] >>

\* the times of day a timer is set to
Slots == { << 0, 0 >>, << 8, 0 >> }

VARIABLES
  trigTimers,    \* useState<NotificationTimer[]>, with hasTriggered
  wall,          \* the wall clock: the local day and the instant of it
  due,           \* a dependency of the trigger effect has changed
  fired,         \* sendNotification calls per timer this day since its
                 \* last edit or toggle (history)
  trigOp         \* the last step of this screen (history)

gvars == << trigTimers, wall, due, fired, trigOp >>

TimerIds == 1..MaxTimers

InitG ==
  /\ trigTimers = << >>
  /\ wall = [day |-> 1, i |-> 2]
  /\ due = TRUE
  /\ fired = [id \in TimerIds |-> 0]
  /\ trigOp = "mount"

\* the wall clock moves on to the next instant
WallAdvance ==
  /\ wall.i < Len(Instants) \/ wall.day < MaxDay
  /\ wall' = IF wall.i < Len(Instants) THEN [wall EXCEPT !.i = @ + 1]
             ELSE [day |-> wall.day + 1, i |-> 1]
  /\ fired' = IF wall.i < Len(Instants) THEN fired
              ELSE [id \in TimerIds |-> 0]
  /\ trigOp' = "clock"
  /\ UNCHANGED << trigTimers, due >>

\* the interval's setCurrentTime(new Date())
SecondTick ==
  /\ due' = TRUE
  /\ trigOp' = "tick"
  /\ UNCHANGED << trigTimers, wall, fired >>

\* the timers the effect calls sendNotification for
ToFire(ts, t) ==
  { k \in 1..Len(ts) :
      /\ t.second = 0
      /\ ts[k].isActive /\ ~ts[k].hasTriggered
      /\ ts[k].hour = t.hour /\ ts[k].minute = t.minute }

\* currentHour === 0 && currentMinute === 0 && currentSecond === 0
IsMidnight(t) == t.hour = 0 /\ t.minute = 0 /\ t.second = 0

\* the trigger effect, run after a render in which currentTime or timers
\* changed: the queued functional updates apply in order, marks first, the
\* midnight reset last, and every one of them makes a new array
CheckTriggers ==
  /\ due
  /\ LET t      == Instants[wall.i]
         hits   == ToFire(trigTimers, t)
         ids    == { trigTimers[k].id : k \in hits }
         marked == [k \in 1..Len(trigTimers) |->
                      IF trigTimers[k].id \in ids
                        THEN [trigTimers[k] EXCEPT !.hasTriggered = TRUE]
                        ELSE trigTimers[k]]
         reset  == [k \in 1..Len(trigTimers) |->
                      [marked[k] EXCEPT !.hasTriggered = FALSE]]
     IN  /\ \A id \in ids : fired[id] < MaxFired
         /\ fired' = [id \in TimerIds |->
                        IF id \in ids THEN fired[id] + 1 ELSE fired[id]]
         /\ trigTimers' = IF IsMidnight(t) THEN reset ELSE marked
         /\ due' = (hits # {} \/ IsMidnight(t))
         /\ trigOp' = IF hits # {} THEN "fire" ELSE "effect"
  /\ UNCHANGED wall

\* addTimer with a valid time: the new timer is appended
AddTrigTimer(slot) ==
  /\ Len(trigTimers) < MaxTimers
  /\ \E id \in TimerIds :
       /\ \A k \in 1..Len(trigTimers) : trigTimers[k].id < id
       /\ \A other \in TimerIds : other < id =>
            \E k \in 1..Len(trigTimers) : trigTimers[k].id >= other
       /\ trigTimers' = Append(trigTimers,
            [id |-> id, hour |-> slot[1], minute |-> slot[2],
             isActive |-> TRUE, hasTriggered |-> FALSE])
       /\ fired' = [fired EXCEPT ![id] = 0]
  /\ due' = TRUE
  /\ trigOp' = "add"
  /\ UNCHANGED wall

\* editTimer with a valid time: the time is replaced and the mark cleared
EditTrigTimer(id, slot) ==
  /\ \E k \in 1..Len(trigTimers) : trigTimers[k].id = id
  /\ trigTimers' = [k \in 1..Len(trigTimers) |->
                      IF trigTimers[k].id = id
                        THEN [trigTimers[k] EXCEPT !.hour = slot[1],
                                                   !.minute = slot[2],
                                                   !.hasTriggered = FALSE]
                        ELSE trigTimers[k]]
  /\ fired' = [fired EXCEPT ![id] = 0]
  /\ due' = TRUE
  /\ trigOp' = "edit"
  /\ UNCHANGED wall

\* toggleTimer(id): the flag is flipped and the mark cleared
ToggleTrigTimer(id) ==
  /\ \E k \in 1..Len(trigTimers) : trigTimers[k].id = id
  /\ trigTimers' = [k \in 1..Len(trigTimers) |->
                      IF trigTimers[k].id = id
                        THEN [trigTimers[k] EXCEPT !.isActive = ~@,
                                                   !.hasTriggered = FALSE]
                        ELSE trigTimers[k]]
  /\ fired' = [fired EXCEPT ![id] = 0]
  /\ due' = TRUE
  /\ trigOp' = "toggle"
  /\ UNCHANGED wall

\* a step of the timer screen in which a schedule call failed ends the
\* part of the run in which every platform call has succeeded
Sound ==
  sound' = ( sound /\ \A i \in 1..Len(lastOp'.calls) :
                        lastOp'.calls[i] # Call("schedule", NoRef) )

\* what a step of one screen leaves alone: the state of the others
offTimer   == << hvars, fvars, gvars >>
offTracker == << vars, fvars, gvars >>
offClock   == << vars, hvars, gvars >>
offTrigger == << vars, hvars, fvars >>

\* the calls of addGlass are counted from a step that leaves the counter on
\* screen at 0; a restart ends the count
Counted ==
  LET count == IF hop'.kind = "addGlass"
                 THEN IF past.counting THEN [past EXCEPT !.n = @ + 1]
                                       ELSE past
               ELSE IF isLoading' THEN NoPast
               ELSE IF glasses' = 0
                 THEN [counting |-> TRUE, n |-> 0, pre |-> NoPre]
               ELSE IF glasses' = glasses /\ ~isLoading THEN past
               ELSE NoPast
      \* what the screen showed when the process was killed, kept until the
      \* load that follows has shown the screen
      pre   == IF hop'.kind = "restart"
                 THEN [on |-> TRUE, glasses |-> glasses, goal |-> goal,
                       day |-> today,
                       dayStored |->
                         /\ kv.lastDate.present
                         /\ kv.lastDate.val = getTodayDateString(today)]
               ELSE IF \/ boot' # "done"
                       \/ hop'.kind \in { "loadShow", "loadData" }
                 THEN past.pre
               ELSE NoPre
  IN  past' = [count EXCEPT !.pre = pre]

NextH ==
  \/ InitializeTheme /\ Counted /\ UNCHANGED offTracker
  \/ LoadCheck /\ Counted /\ UNCHANGED offTracker
  \/ LoadCheckDate /\ Counted /\ UNCHANGED offTracker
  \/ LoadData /\ Counted /\ UNCHANGED offTracker
  \/ LoadShow /\ Counted /\ UNCHANGED offTracker
  \/ RestartApp /\ Counted /\ UNCHANGED offTracker
  \/ IntervalCheck /\ Counted /\ UNCHANGED offTracker
  \/ IntervalCheckDate /\ Counted /\ UNCHANGED offTracker
  \/ Midnight /\ Counted /\ UNCHANGED offTracker
  \/ addGlass /\ Counted /\ UNCHANGED offTracker
  \/ resetGlasses /\ Counted /\ UNCHANGED offTracker
  \/ OpenGoalModal /\ Counted /\ UNCHANGED offTracker
  \/ (\E text \in GoalInputs : updateGoal(text)) /\ Counted
       /\ UNCHANGED offTracker
  \/ CloseGoalModal /\ Counted /\ UNCHANGED offTracker
  \/ DismissCompletion /\ Counted /\ UNCHANGED offTracker
  \/ toggleTheme /\ Counted /\ UNCHANGED offTracker

allvars == << vars, hvars, fvars, gvars >>

\* both screens as the app starts them
InitApp == Init /\ InitH /\ FormatIdle /\ InitG

\* the clock line alone
InitClock == Init /\ InitH /\ InitF /\ InitG

NextF ==
  \/ ClockMinute /\ UNCHANGED offClock
  \/ (\E h \in Hours, m \in Minutes : ClockSet(h, m)) /\ UNCHANGED offClock

SpecF == InitClock /\ [][NextF]_allvars

NextG ==
  \/ WallAdvance /\ UNCHANGED offTrigger
  \/ SecondTick /\ UNCHANGED offTrigger
  \/ CheckTriggers /\ UNCHANGED offTrigger
  \/ (\E slot \in Slots : AddTrigTimer(slot)) /\ UNCHANGED offTrigger
  \/ (\E id \in TimerIds, slot \in Slots : EditTrigTimer(id, slot))
       /\ UNCHANGED offTrigger
  \/ (\E id \in TimerIds : ToggleTrigTimer(id)) /\ UNCHANGED offTrigger

\* the in-app trigger screen alone
SpecG == InitApp /\ [][NextG]_allvars

\* the tracker alone, the timer screen never opened
SpecH == InitApp /\ [][NextH]_allvars


\* ------------------------------------------------------------------ Next --
Next ==
  \/ MountWriteLands /\ Sound /\ UNCHANGED offTimer
  \/ Restart /\ sound' = FALSE /\ UNCHANGED offTimer
  \/ (\E k \in 1..Len(tasks) : LoadRead(k)) /\ Sound /\ UNCHANGED offTimer
  \/ (\E k \in 1..Len(tasks) : LoadWipe(k)) /\ Sound /\ UNCHANGED offTimer
  \/ (\E k \in 1..Len(tasks) : SchedCancel(k)) /\ Sound /\ UNCHANGED offTimer
  \/ (\E k \in 1..Len(tasks) : LoadReschedule(k)) /\ Sound /\ UNCHANGED offTimer
  \/ (\E k \in 1..Len(tasks) : LoadNoActive(k)) /\ Sound /\ UNCHANGED offTimer
  \/ OpenAdd /\ Sound /\ UNCHANGED offTimer
  \/ (\E i \in 1..Len(timers) : OpenEdit(i)) /\ Sound /\ UNCHANGED offTimer
  \/ CancelModal /\ Sound /\ UNCHANGED offTimer
  \/ (\E f \in AddForms, t \in Clock : AddTimer(f, t)) /\ Sound
       /\ UNCHANGED offTimer
  \/ (\E k \in 1..Len(tasks) : AddDone(k)) /\ Sound /\ UNCHANGED offTimer
  \/ (\E f \in EditForms : EditTimer(f)) /\ Sound /\ UNCHANGED offTimer
  \/ (\E k \in 1..Len(tasks) : EditDone(k)) /\ Sound /\ UNCHANGED offTimer
  \/ (\E id \in 1..MaxClock : ToggleTimer(id)) /\ Sound /\ UNCHANGED offTimer
  \/ (\E k \in 1..Len(tasks) : ToggleOffDone(k)) /\ Sound /\ UNCHANGED offTimer
  \/ (\E k \in 1..Len(tasks) : ToggleOnDone(k)) /\ Sound /\ UNCHANGED offTimer
  \/ (\E id \in 1..MaxClock : DeleteTimer(id)) /\ Sound /\ UNCHANGED offTimer
  \/ DeleteCancel /\ Sound /\ UNCHANGED offTimer
  \/ DeleteConfirm /\ Sound /\ UNCHANGED offTimer
  \/ (\E k \in 1..Len(tasks) : DeleteDone(k)) /\ Sound /\ UNCHANGED offTimer

\* the timer screen alone, the tracker left as it starts
Spec == InitApp /\ [][Next]_allvars


\* ============================================================ properties ==
\* the schedule calls among the platform calls a handler made
SchedCalls(calls) == SelectSeq(calls, LAMBDA c : c.op = "schedule")

SchedRefs(calls) ==
  { SchedCalls(calls)[j].ref : j \in 1..Len(SchedCalls(calls)) }

AllSucceeded(calls) == NoRef \notin SchedRefs(calls)

Entries(ts, id) == { i \in 1..Len(ts) : ts[i].id = id }

ActiveIdx(ts) == { i \in 1..Len(ts) : ts[i].isActive }

\* the persisted fields of an entry other than its schedule reference
Core(ts) ==
  [i \in 1..Len(ts) |->
     << ts[i].id, ts[i].name, ts[i].hour, ts[i].minute, ts[i].isActive >>]

\* the handler that has just returned made a schedule call for one timer
Scheduled == lastOp.kind \in {"add", "edit", "toggleOn"}

\* where that timer is in the collection: the entry addTimer appended, the
\* entries editTimer or toggleTimer matched by id
Target ==
  IF lastOp.kind = "add" THEN {Len(timers)} ELSE Entries(timers, lastOp.id)

\* --------------------------------------------------------------------------
\* C1: in every reachable state a timer stores a schedule reference if and
\* only if it is active and the last schedule call made for it succeeded:
\* an entry that stores a reference is active, and when a handler that
\* scheduled a timer returns, its entry stores a reference exactly when it
\* is active and that call succeeded.
C1_RefIffActiveAndScheduled ==
  /\ \A i \in 1..Len(timers) : timers[i].nid # NoRef => timers[i].isActive
  /\ Scheduled =>
       \A i \in Target :
         timers[i].nid # NoRef <=>
           (timers[i].isActive /\ lastOp.ref # NoRef)

\* --------------------------------------------------------------------------
\* C2: when the schedule call of addTimer, editTimer, toggleTimer (enable)
\* or of the start-up load fails, the handler still returns, it made one
\* schedule call for the timer and no more, and the timer is left active
\* with no stored reference.
C2_FailedScheduleLeavesActiveFailed ==
  /\ (Scheduled /\ lastOp.ref = NoRef) =>
       /\ Len(SchedCalls(lastOp.calls)) = 1
       /\ \A i \in Target :
            timers[i].isActive /\ timers[i].nid = NoRef
  /\ lastOp.kind = "load" =>
       /\ Len(SchedCalls(lastOp.calls)) = Cardinality(ActiveIdx(timers))
       /\ \A i \in ActiveIdx(timers) :
            timers[i].nid \in SchedRefs(lastOp.calls)

\* --------------------------------------------------------------------------
\* C3: when a persisted collection exists and every schedule call of the
\* load succeeds, then as the load returns: one schedule call was made per
\* active entry, the active entries store the references those calls issued
\* (pairwise distinct, all pending), no inactive entry has a pending
\* notification, nothing that was pending before the load is pending, and
\* the value the store took is the collection with the new references.
C3_ReconcileReschedulesActive ==
  (lastOp.kind = "load" /\ AllSucceeded(lastOp.calls)) =>
    LET A == ActiveIdx(timers)
        S == SchedRefs(lastOp.calls)
    IN  /\ timers = lastOp.snap
        /\ Len(SchedCalls(lastOp.calls)) = Cardinality(A)
        /\ { timers[i].nid : i \in A } = S
        /\ Cardinality(S) = Cardinality(A)
        /\ S \subseteq pending
        /\ S \cap lastOp.pend = {}
        /\ pending \cap lastOp.pend = {}
        /\ \A i \in (1..Len(timers)) \ A : timers[i].nid \notin pending
        /\ lastOp.saved => storage = Stored(Stringify(timers))

\* a load that found notifications pending has re-scheduled an active entry
\* and the store has taken the collection
C3_Witness ==
  /\ lastOp.kind = "load" /\ AllSucceeded(lastOp.calls)
  /\ ActiveIdx(timers) # {}
  /\ lastOp.pend # {}
  /\ lastOp.saved

\* --------------------------------------------------------------------------
\* C4 as stated: every load cancels every pending notification, whether or
\* not a collection is stored: when a load returns, nothing that was pending
\* when it ran is still pending.
C4_WipeOnEveryLoad ==
  lastOp.kind \in {"load", "loadNone"} => pending \cap lastOp.pend = {}

\* C4 amended: a load that finds a collection stored cancels every pending
\* notification, one cancel call each, before it re-schedules; a load that
\* finds nothing stored makes no platform call and leaves the pending
\* notifications as they are.
C4_WipeWhenCollectionStored ==
  /\ lastOp.kind = "wipe" =>
       /\ storage # Absent
       /\ pending = {}
       /\ { lastOp.calls[j].ref : j \in 1..Len(lastOp.calls) } = lastOp.pend
       /\ Len(lastOp.calls) = Cardinality(lastOp.pend)
       /\ \A j \in 1..Len(lastOp.calls) : lastOp.calls[j].op = "cancel"
  /\ lastOp.kind = "load" => pending \cap lastOp.pend = {}
  /\ lastOp.kind = "loadNone" =>
       /\ storage = Absent
       /\ lastOp.calls = << >>
       /\ pending = lastOp.pend

\* the wipe of a load has just cancelled a pending notification
C4_Witness == lastOp.kind = "wipe" /\ lastOp.pend # {}

\* --------------------------------------------------------------------------
\* C5: when the app is restarted while the store holds the collection that
\* is in memory, the collection the load puts in memory has the same
\* entries (id, name, hour, minute, isActive) in the same order, whichever
\* of the mount-time read and write the store serves first.
C5_CollectionSurvivesRestart ==
  (lastOp.kind = "load" /\ lastOp.baseOk) =>
    Core(timers) = Core(lastOp.base)

\* --------------------------------------------------------------------------
\* C6: when addTimer returns (its input was a valid time), the collection is
\* the collection the call was made on with one entry appended at the end;
\* the new entry is active, its hour and minute are in range, and when the
\* schedule call succeeded it stores the reference the platform returned,
\* which is pending.
C6_AddAppendsOneEntry ==
  lastOp.kind = "add" =>
    LET n == Len(lastOp.snap)
    IN  /\ Len(timers) = n + 1
        /\ SubSeq(timers, 1, n) = lastOp.snap
        /\ timers[n + 1].id = lastOp.id
        /\ timers[n + 1].isActive
        /\ timers[n + 1].hour \in 0..23
        /\ timers[n + 1].minute \in 0..59
        /\ Len(SchedCalls(lastOp.calls)) = 1
        /\ lastOp.ref # NoRef =>
             /\ timers[n + 1].nid = lastOp.ref
             /\ lastOp.ref \in pending
             /\ lastOp.ref \notin lastOp.pend

\* addTimer has returned on a non-empty collection with a reference
C6_Witness ==
  /\ lastOp.kind = "add"
  /\ lastOp.ref # NoRef
  /\ Len(lastOp.snap) >= 1

\* --------------------------------------------------------------------------
\* C7: the handlers' writes are serialized, so no update is lost: when a
\* handler (or the load) writes the collection, every entry that was in the
\* collection just before is still in it, except the entry a delete removes.
C7_NoLostUpdate ==
  /\ lastOp.kind \in {"add", "edit", "toggleOn", "toggleOff", "load"} =>
       Ids(lastOp.prev) \subseteq Ids(timers)
  /\ lastOp.kind = "delete" =>
       Ids(lastOp.prev) \ {lastOp.id} \subseteq Ids(timers)

\* --------------------------------------------------------------------------
\* C8: two toggleTimer calls on the same id restore the isActive flag the
\* first call found: once the first two toggleTimer calls of a session,
\* made on the same id with no other write to the collection meanwhile,
\* have both returned, the entry's flag is the original one.
C8_ToggleTwiceRestoresFlag ==
  ( /\ lastOp.kind \in {"toggleOn", "toggleOff"}
    /\ lastOp.call \in {1, 2}
    /\ tog.n = 2 /\ tog.done = 2 /\ tog.clean ) =>
    \A i \in Entries(timers, tog.id) : timers[i].isActive = tog.orig

\* --------------------------------------------------------------------------
\* C9: toggleTimer on a timer it found active makes a cancel call for the
\* stored reference (none when there is no reference) and then marks the
\* entry inactive with no reference; on a timer it found inactive it makes
\* one schedule call and then marks the entry active with the reference
\* that call returned; every entry with another id is as it was before the
\* write.
C9_ToggleCancelsOrSchedules ==
  /\ lastOp.kind = "toggleOff" =>
       /\ lastOp.tm.isActive
       /\ lastOp.calls = IF lastOp.tm.nid # NoRef
                           THEN << Call("cancel", lastOp.tm.nid) >>
                           ELSE << >>
       /\ lastOp.tm.nid \notin pending
       /\ Len(timers) = Len(lastOp.prev)
       /\ \A i \in 1..Len(timers) :
            IF lastOp.prev[i].id = lastOp.id
              THEN timers[i] = [lastOp.prev[i] EXCEPT !.isActive = FALSE,
                                                       !.nid = NoRef]
              ELSE timers[i] = lastOp.prev[i]
  /\ lastOp.kind = "toggleOn" =>
       /\ ~lastOp.tm.isActive
       /\ Len(SchedCalls(lastOp.calls)) = 1
       /\ lastOp.calls[Len(lastOp.calls)] = Call("schedule", lastOp.ref)
       /\ lastOp.ref # NoRef =>
            lastOp.ref \in pending /\ lastOp.ref \notin lastOp.pend
       /\ Len(timers) = Len(lastOp.prev)
       /\ \A i \in 1..Len(timers) :
            IF lastOp.prev[i].id = lastOp.id
              THEN timers[i] = [lastOp.prev[i] EXCEPT !.isActive = TRUE,
                                                       !.nid = lastOp.ref]
              ELSE timers[i] = lastOp.prev[i]

\* an enable has returned with the reference of its schedule call
C9_Witness ==
  /\ lastOp.kind = "toggleOn"
  /\ lastOp.ref # NoRef
  /\ \E i \in Entries(timers, lastOp.id) : timers[i].nid = lastOp.ref

\* --------------------------------------------------------------------------
\* C10: a confirmed deleteTimer(id) removes exactly one entry, the one with
\* that id, keeping the others in order, and when the removed entry stored a
\* reference at the time it was removed, exactly one cancel call, for that
\* reference, was made before.
C10_DeleteRemovesOneAndCancels ==
  lastOp.kind = "delete" =>
    /\ Cardinality(Entries(lastOp.prev, lastOp.id)) = 1
    /\ timers = FilterOut(lastOp.prev, lastOp.id)
    /\ \A i \in Entries(lastOp.prev, lastOp.id) :
         lastOp.calls = IF lastOp.prev[i].nid # NoRef
                          THEN << Call("cancel", lastOp.prev[i].nid) >>
                          ELSE << >>

\* --------------------------------------------------------------------------
\* C11: editTimer re-schedules by cancel-then-create: when it returns after
\* a successful schedule call, a cancel call for the reference the timer
\* held when Save was tapped was made before the schedule call, that
\* reference is no longer pending, and the entry stores the new reference,
\* which is pending.
C11_EditCancelsThenCreates ==
  (lastOp.kind = "edit" /\ lastOp.ref # NoRef) =>
    /\ lastOp.calls[Len(lastOp.calls)] = Call("schedule", lastOp.ref)
    /\ Len(SchedCalls(lastOp.calls)) = 1
    /\ lastOp.ref \in pending
    /\ \A i \in Entries(timers, lastOp.id) : timers[i].nid = lastOp.ref
    /\ \A i \in Entries(lastOp.snap, lastOp.id) :
         LET old == lastOp.snap[i].nid
         IN  old # NoRef =>
               /\ old \notin pending
               /\ \E j \in 1..(Len(lastOp.calls) - 1) :
                    lastOp.calls[j] = Call("cancel", old)

\* --------------------------------------------------------------------------
\* C12: editTimer with valid input replaces the entry in place: when it
\* returns, the collection has the length it had before the write, the
\* entry with the edited id is at the same index with the same id and the
\* same isActive flag, and every entry with another id is unchanged.
C12_EditReplacesInPlace ==
  lastOp.kind = "edit" =>
    /\ Len(timers) = Len(lastOp.prev)
    /\ \A i \in 1..Len(timers) :
         IF lastOp.prev[i].id = lastOp.id
           THEN /\ timers[i].id = lastOp.id
                /\ timers[i].isActive = lastOp.prev[i].isActive
           ELSE timers[i] = lastOp.prev[i]

\* --------------------------------------------------------------------------
\* what the validation is specified to accept: a field that is a number
\* (digits only) within its range
IsNumber(str) == Len(str) > 0 /\ \A i \in 1..Len(str) : IsDigit(str[i])

InRange(str, hi) == IsNumber(str) /\ DigitPrefix(str, 1, 0) <= hi

LeadingInt(str, hi) ==
  LET u == IF Len(str) > 0 /\ str[1] \in {"+", "-"} THEN Tail(str) ELSE str
  IN  /\ Len(u) > 0
      /\ IsDigit(u[1])
      /\ IF str[1] = "-" THEN DigitPrefix(u, 1, 0) = 0
                          ELSE DigitPrefix(u, 1, 0) <= hi

C14_ConfirmationOnlyOnSuccess ==
  lastOp.kind = "add" =>
    (lastOp.alert = "Notification Added" <=> lastOp.ref # NoRef)

\* --------------------------------------------------------------------------
\* the add handlers that are awaiting their schedule call, the one just
\* started (the last) left out
EarlierAdds ==
  { k \in 1..(Len(tasks) - 1) : tasks[k].kind = "add" }

\* C15: timer ids are unique and never reused: no two entries of the
\* collection share an id, and the id addTimer assigns differs from the id
\* of every entry of the collection and of every timer another addTimer
\* call is about to append, the same clock millisecond included.
C15_IdsUnique ==
  /\ \A i, j \in 1..Len(timers) : i # j => timers[i].id # timers[j].id
  /\ lastOp.kind = "addStart" =>
       /\ lastOp.id \notin Ids(timers)
       /\ \A k \in EarlierAdds : tasks[k].id # lastOp.id

\* ==========================================================================
\* Claims about the water tracker
\* ==========================================================================
\* the goal field holds a decimal numeral, signed or not
IsNumeral(str) ==
  \/ IsNumber(str)
  \/ Len(str) > 1 /\ str[1] = "-" /\ IsNumber(Tail(str))

\* the number a numeral denotes
NumeralValue(str) ==
  IF str[1] = "-" THEN 0 - DigitPrefix(Tail(str), 1, 0)
  ELSE DigitPrefix(str, 1, 0)

\* --------------------------------------------------------------------------
\* C16: for every goal input g, setGoal(g) succeeds, the daily goal becoming
\* g, if and only if 1 <= g <= 20; otherwise the goal and the glasses
\* consumed are unchanged and the validation error is shown.  The glasses
\* consumed are unchanged in either case.
C16_SetGoalIffInRange ==
  hop.kind = "updateGoal" =>
    /\ glasses = hop.glasses
    /\ IsNumeral(hop.input) =>
         /\ hop.alert = "" <=> NumeralValue(hop.input) \in 1..20
         /\ hop.alert = "" => goal = NumeralValue(hop.input)
    /\ hop.alert = "" => goal \in 1..20 /\ ~showGoalModal
    /\ hop.alert # "" =>
         /\ hop.alert = "Invalid Goal"
         /\ goal = hop.goal
         /\ showGoalModal
         /\ showCompletionModal = hop.show

\* the goal was moved to the upper end of the range with glasses logged
C16_Witness ==
  /\ hop.kind = "updateGoal"
  /\ hop.alert = ""
  /\ goal = 20
  /\ hop.goal # 20
  /\ glasses > 0

\* --------------------------------------------------------------------------
\* the first step of a rollover check, at load or on the interval
CheckSteps == { "loadCheck", "intervalCheck" }

\* the step of a rollover check that writes the day after a reset
DateSteps == { "loadCheckDate", "intervalCheckDate" }

\* C17: day rollover.  A rollover check, at load or on the 60 s interval,
\* whose store calls succeed and which finds a stored day other than today
\* sets the glasses consumed to 0, persists "0" and then stores today as
\* the day; a check that finds today stored leaves the glasses consumed and
\* the daily goal as they were.
C17_RolloverResets ==
  /\ ( hop.kind \in CheckSteps /\ hop.read /\ hop.wrote /\ hop.last.present )
      => IF hop.last.val # getTodayDateString(today)
           THEN /\ glasses = 0
                /\ kv.glasses = Stored(toString(0))
                /\ checkDay = getTodayDateString(today)
                /\ (boot = "date" \/ tick = "date")
           ELSE /\ glasses = hop.glasses
                /\ goal = hop.goal
                /\ kv.lastDate = Stored(getTodayDateString(today))
                /\ boot # "date" /\ tick # "date"
  /\ ( hop.kind \in DateSteps /\ hop.wrote )
      => /\ kv.lastDate = Stored(hop.day)
         /\ hop.day # << >>
         /\ hop.last.present /\ hop.last.val # hop.day
         /\ glasses = hop.glasses
         /\ goal = hop.goal

\* the interval's check has reset a counter that was above 0
C17_Witness ==
  /\ hop.kind = "intervalCheck"
  /\ hop.read /\ hop.wrote
  /\ hop.last.present /\ hop.last.val # getTodayDateString(today)
  /\ hop.glasses > 0
  /\ glasses = 0

\* --------------------------------------------------------------------------
\* C18: while addGlass is called repeatedly from 0, with no reset, goal
\* change, rollover or restart in between, the completion notice appears
\* exactly once: it becomes visible at the call that makes the glasses
\* consumed equal the daily goal, not before, and the calls that take the
\* counter above the goal do not show it again.
C18_NoticeOnceAtGoal ==
  /\ hop.kind = "addGlass" =>
       /\ glasses = hop.glasses + 1
       /\ ~hop.show
       /\ showCompletionModal <=> glasses = goal
  /\ run.valid =>
       /\ run.shows = IF glasses >= goal THEN 1 ELSE 0
       /\ showCompletionModal => glasses = goal

\* addGlass has taken the counter above the goal, the notice shown once on
\* the way and dismissed
C18_Witness ==
  /\ hop.kind = "addGlass"
  /\ run.valid
  /\ run.shows = 1
  /\ glasses > goal
  /\ ~showCompletionModal

\* --------------------------------------------------------------------------
\* C19: once the user has dismissed the completion notice, it does not
\* become visible again until the glasses consumed change: no setGoal call,
\* rollover check on the same day, theme toggle or restart shows it again
\* while the counter keeps its value (the loading screen of a restart
\* shows no counter).
C19_DismissedStaysHidden ==
  dis.on => ~showCompletionModal

\* --------------------------------------------------------------------------
\* C20 as stated: the counter is bounded by the daily goal, in every
\* reachable state the glasses consumed are at most the daily goal.
C20_CounterBoundedByGoal ==
  glasses <= goal

\* C20 amended: the counter is not bounded by the goal; what is bounded is
\* the progress shown.  In every reachable state the glasses consumed are
\* 0 or more, the daily goal is within 1..20, and the percentage shown is
\* glasses / goal * 100 rounded to the nearest integer, capped at 100: it
\* is within 0..100 and is 100 exactly when the counter has reached or
\* passed the goal.
C20_ProgressCapped ==
  LET p == progressPercentage(glasses, goal)
  IN  /\ glasses \in Nat
      /\ goal \in 1..20
      /\ p \in 0..100
      /\ p = 100 <=> glasses >= goal
      /\ glasses < goal =>
           /\ 2 * (p * goal - 100 * glasses) <= goal
           /\ 2 * (100 * glasses - p * goal) <= goal

\* addGlass has taken the counter above the goal
C20_Witness ==
  /\ hop.kind = "addGlass"
  /\ glasses > goal
  /\ ~isLoading
  /\ progressPercentage(glasses, goal) = 100

\* --------------------------------------------------------------------------
\* C21: addGlass increments the glasses consumed by exactly 1 on every
\* call, with no upper clamp: n calls starting from 0, with no reset,
\* rollover or restart in between, leave the counter at n, also for n
\* above the daily goal and for presses in quick succession.
C21_AddGlassCounts ==
  /\ hop.kind = "addGlass" => glasses = hop.glasses + 1
  /\ past.counting => glasses = past.n

\* the third call since 0 has taken the counter past a goal of 2
C21_Witness ==
  /\ hop.kind = "addGlass"
  /\ past.counting
  /\ past.n = MaxGlasses
  /\ past.n > goal

\* --------------------------------------------------------------------------
\* C22: the hydration state is persisted across restarts.  After any
\* sequence of addGlass, resetGlasses and setGoal, with no store call of
\* the run failed, a restart within the local day the store holds as the
\* day of the last rollover check loads the glasses consumed and the daily
\* goal that were in memory before the restart.
C22_StateSurvivesRestart ==
  ( /\ hop.kind = "loadShow"
    /\ past.pre.on
    /\ past.pre.dayStored
    /\ past.pre.day = today
    /\ fails = 0 )
  => /\ glasses = past.pre.glasses
     /\ goal = past.pre.goal
     /\ kv.glasses = Stored(toString(glasses))
     /\ kv.goal = Stored(toString(goal))

\* a restart has brought back a counter above 0 and a goal of 20
C22_Witness ==
  /\ hop.kind = "loadShow"
  /\ past.pre.on /\ past.pre.dayStored /\ past.pre.day = today
  /\ fails = 0
  /\ past.pre.glasses > 0
  /\ past.pre.goal = 20
  /\ glasses = past.pre.glasses
  /\ goal = 20

\* --------------------------------------------------------------------------
\* C23: persistence errors are ignored and the state in memory stays
\* authoritative.  A step in which a store read or write fails leaves the
\* glasses consumed and the daily goal as the same step leaves them when the
\* call succeeds: a rollover check resets the counter exactly when the
\* stored day is not today, the load sets the stored counter and goal.
C23_FailedCallAsSucceeded ==
  /\ ( hop.kind \in CheckSteps /\ (~hop.read \/ ~hop.wrote) )
      => /\ glasses = IF NewDay(hop.last, hop.day) THEN 0 ELSE hop.glasses
         /\ goal = hop.goal
  /\ ( hop.kind = "loadData" /\ ~hop.read )
      => /\ glasses = IF hop.stored[1].present
                        THEN Number(hop.stored[1].val) ELSE hop.glasses
         /\ goal = IF hop.stored[2].present
                     THEN Number(hop.stored[2].val) ELSE hop.goal

\* ==========================================================================
\* Claims about the clock line
\* ==========================================================================
\* position of the colon in a formatted time
Colon(str) == CHOOSE i \in 1..Len(str) : str[i] = ":"

\* --------------------------------------------------------------------------
\* C24: formatTime gives the 12-hour string of a 24-hour time.  For every
\* hour in 0..23 and minute in 0..59 the result reads "h:mm P": P is AM
\* exactly when the hour is below 12, h is 12 for the hours 0 and 12 and
\* the hour mod 12 otherwise, so within 1..12 and without a leading zero,
\* and mm is the minute in two digits.
C24_FormatTwelveHour ==
  LET str == clockText
      c   == Colon(str)
      h   == SubSeq(str, 1, c - 1)
      mm  == SubSeq(str, c + 1, c + 2)
      P   == SubSeq(str, c + 3, Len(str))
      h12 == IF currentTime.hour % 12 = 0 THEN 12 ELSE currentTime.hour % 12
  IN  /\ \E i \in 1..Len(str) : str[i] = ":"
      /\ IsNumber(h) /\ h[1] # "0"
      /\ DigitPrefix(h, 1, 0) = h12
      /\ h12 \in 1..12
      /\ Len(mm) = 2 /\ IsNumber(mm)
      /\ DigitPrefix(mm, 1, 0) = currentTime.minute
      /\ P = IF currentTime.hour < 12 THEN << " ", "A", "M" >>
                                      ELSE << " ", "P", "M" >>

\* five past noon is shown as "12:05 PM"
C24_Witness ==
  /\ currentTime = [hour |-> 12, minute |-> 5]
  /\ clockText = << "1", "2", ":", "0", "5", " ", "P", "M" >>

\* ==========================================================================
\* Claims about the timer screen, continued
\* ==========================================================================
\* the references stored in the entries that are switched on
ActiveRefs ==
  { timers[i].nid : i \in { j \in 1..Len(timers) :
                              timers[j].isActive /\ timers[j].nid # NoRef } }

\* --------------------------------------------------------------------------
\* C25: whenever no handler is awaiting a platform call, the notifications
\* pending at the platform are exactly the references stored in the entries
\* with isActive = true, each held by one entry only: none is pending for
\* a disabled timer, a deleted timer or an entry lost from the collection,
\* after any interleaving of addTimer, editTimer, toggleTimer and
\* deleteTimer calls whose schedule calls have all succeeded.
C25_PendingMatchesActive ==
  (tasks = << >> /\ sound) =>
    /\ pending = ActiveRefs
    /\ \A i, j \in 1..Len(timers) :
         (i # j /\ timers[i].nid # NoRef) => timers[i].nid # timers[j].nid

\* ==========================================================================
\* Claims about the timer screen that triggers in the app
\* ==========================================================================
\* C26: an active timer fires sendNotification at most once per local day:
\* after it has fired it does not fire again that day unless an edit or a
\* toggle has cleared hasTriggered, for every time of day, 00:00 included,
\* and however often the trigger effect runs again within the second.
C26_FiresOncePerDay ==
  \A id \in TimerIds : fired[id] <= 1

==========================================================================
